---------------------------- MODULE Spec2Model ----------------------------
(* A model of acapy_plugin_toolbox/util.py:                                *)
(*   - require_role / admin_only : the role gate around a handler          *)
(*   - generate_model_schema     : the message model / schema factory      *)
(*   - timestamp_utc_iso / datetime_from_iso : the timestamp codec         *)
(* Python's None is written as the string "None" where a string is stored, *)
(* and as a record with exists = FALSE where an object is stored.          *)
EXTENDS Integers, Sequences, FiniteSets, TLC

VARIABLES
    \* ---- role gate (require_role._wrapped), one entry per invocation ----
    pc,          \* position of each invocation of _wrapped
    args,        \* the (role, handler, context, responder) it was invoked with
    sent,        \* messages handed to the invocation's responder, in order
    sendState,   \* state of the gate's own send_reply call at the responder
    funcCalls,   \* argument tuples the wrapped func was called with
    funcOutcome, \* how the wrapped func ended
    outcome,     \* how _wrapped ended, as seen by its caller
    \* ---- factory (generate_model_schema) ----
    dicts,       \* the dict objects alive: descriptors' and schemas' mappings
    classes,     \* the classes generate_model_schema has created, in order
    calls,       \* the calls of generate_model_schema made so far
    prev,        \* dicts and classes as they were before the latest call
    instance,    \* the latest instance made of a generated model
    \* ---- timestamp codec (timestamp_utc_iso, datetime_from_iso) ----
    cpc,         \* what the codec has done: "start", "encoded", "decoded", ...
    now,         \* what datetime.utcnow() returned to the latest encode
    timespec,    \* the timespec argument of the latest encode
    encoded,     \* the string timestamp_utc_iso returned, as characters
    decoded      \* what datetime_from_iso returned

gateVars == <<pc, args, sent, sendState, funcCalls, funcOutcome, outcome>>

factoryVars == <<dicts, classes, calls, prev, instance>>

codecVars == <<cpc, now, timespec, encoded, decoded>>

vars == <<gateVars, factoryVars, codecVars>>

-----------------------------------------------------------------------------
(* Bounds and input domains                                                *)

NumInv == 2

Invs == 1..NumInv

Roles == {"admin", "member"}

TheirRoles == {"admin", "member", "Admin", "None"}

NoRecord == [exists |-> FALSE, their_role |-> "None"]

ConnectionRecords ==
    {NoRecord} \cup {[exists |-> TRUE, their_role |-> r] : r \in TheirRoles}

Messages ==
    { [message_id |-> "m1", thread |-> "None"],
      [message_id |-> "m2", thread |-> "t7"] }

Contexts ==
    [connection_record : ConnectionRecords, message : Messages]

Handlers == {"handler"}

Responders == {"responder"}

FuncResults == {"None", "result"}

NoArgs == [role |-> "None", handler |-> "None",
           context |-> [connection_record |-> NoRecord,
                        message |-> [message_id |-> "None", thread |-> "None"]],
           responder |-> "None"]

NoOutcome == [kind |-> "none", value |-> "None"]

-----------------------------------------------------------------------------
(* require_role                                                            *)

\* str.lower() on the role names in use.
Lower(r) == IF r = "Admin" THEN "admin" ELSE r

\* A role comparison that ignores letter case.
AuthorizedIgnoreCase(role, context) ==
    /\ context.connection_record.exists
    /\ Lower(context.connection_record.their_role) = Lower(role)

\* The condition of line 56-57, negated: the invocation may reach func.
Authorized(role, context) ==
    /\ context.connection_record.exists
    /\ context.connection_record.their_role = role

\* report.assign_thread_from(context.message): the report joins the thread
\* of the message, which is the message's own id when it starts a thread.
AssignThreadFrom(message) ==
    IF message.thread # "None" THEN message.thread ELSE message.message_id

\* The report of lines 58-63.
ProblemReport(context) ==
    [type        |-> "problem-report",
     explain_ltxt |-> "This connection is not authorized to perform the requested action.",
     who_retries |-> "none",
     thid        |-> AssignThreadFrom(context.message)]

\* A rejection that sends nothing.
RejectSilently(context) == << >>

\* What the gate hands to responder.send_reply on the rejection path.
RejectReplies(context) == << ProblemReport(context) >>

\* send_reply called without await: _wrapped goes on to its return.
PcAfterSendNoAwait == "returned"

\* `await responder.send_reply(report)`: _wrapped is suspended until the
\* responder has finished with the report.
PcAfterSendCall == "sending"

\* `return await func(handler, context, responder)`: the argument tuple.
ForwardArgs(handler, context, responder) == <<handler, context, responder>>

\* `await func(...)` without `return`: the result is dropped.
WrappedOutcomeDropped(fo) ==
    IF fo.kind = "return" THEN [kind |-> "return", value |-> "None"] ELSE fo

\* `return await func(...)`: what _wrapped hands back for func's outcome.
WrappedOutcome(fo) == fo

Tag(by, msgs) == [k \in 1..Len(msgs) |-> [by |-> by, msg |-> msgs[k]]]

\* The host calls the gated handler: _wrapped runs from its entry to its
\* first await (line 64 or line 67).
Call(i) ==
    /\ pc[i] = "idle"
    /\ \E role \in Roles, h \in Handlers, c \in Contexts, r \in Responders :
        /\ args' = [args EXCEPT ![i] =
                      [role |-> role, handler |-> h, context |-> c, responder |-> r]]
        /\ IF ~ Authorized(role, c)
           THEN /\ sent' = [sent EXCEPT ![i] = @ \o Tag("gate", RejectReplies(c))]
                /\ sendState' = [sendState EXCEPT ![i] =
                                   IF RejectReplies(c) # <<>> THEN "pending" ELSE @]
                /\ pc' = [pc EXCEPT ![i] = PcAfterSendCall]
                /\ outcome' = [outcome EXCEPT ![i] =
                                 IF PcAfterSendCall = "returned"
                                 THEN [kind |-> "return", value |-> "None"] ELSE @]
                /\ UNCHANGED funcCalls
           ELSE /\ funcCalls' = [funcCalls EXCEPT ![i] =
                                   Append(@, ForwardArgs(h, c, r))]
                /\ pc' = [pc EXCEPT ![i] = "running"]
                /\ UNCHANGED <<sent, sendState, outcome>>
    /\ UNCHANGED <<funcOutcome, factoryVars, codecVars>>

\* The responder finishes the gate's send_reply: it returns, and _wrapped
\* returns None (line 65), or it raises, and nothing in _wrapped catches it.
SendReplyReturns(i) ==
    /\ sendState[i] = "pending"
    /\ sendState' = [sendState EXCEPT ![i] = "done"]
    /\ IF pc[i] = "sending"
       THEN /\ pc' = [pc EXCEPT ![i] = "returned"]
            /\ outcome' = [outcome EXCEPT ![i] = [kind |-> "return", value |-> "None"]]
       ELSE UNCHANGED <<pc, outcome>>
    /\ UNCHANGED <<args, sent, funcCalls, funcOutcome, factoryVars, codecVars>>

SendReplyRaises(i) ==
    /\ sendState[i] = "pending"
    /\ sendState' = [sendState EXCEPT ![i] = "failed"]
    /\ IF pc[i] = "sending"
       THEN /\ pc' = [pc EXCEPT ![i] = "raised"]
            /\ outcome' = [outcome EXCEPT ![i] = [kind |-> "raise", value |-> "ResponderError"]]
       ELSE UNCHANGED <<pc, outcome>>
    /\ UNCHANGED <<args, sent, funcCalls, funcOutcome, factoryVars, codecVars>>

\* The wrapped func, while running, may use the responder it was given.
FuncSendsReply(i) ==
    /\ pc[i] = "running"
    /\ ~ \E k \in 1..Len(sent[i]) : sent[i][k].by = "func"
    /\ sent' = [sent EXCEPT ![i] = Append(@, [by |-> "func",
                  msg |-> [type |-> "reply", explain_ltxt |-> "None",
                           who_retries |-> "None",
                           thid |-> AssignThreadFrom(args[i].context.message)]])]
    /\ UNCHANGED <<pc, args, sendState, funcCalls, funcOutcome, outcome>>
    /\ UNCHANGED <<factoryVars, codecVars>>

\* The wrapped func ends; line 67 hands its outcome to the caller.
FuncReturns(i) ==
    /\ pc[i] = "running"
    /\ \E v \in FuncResults :
        LET fo == [kind |-> "return", value |-> v] IN
        /\ funcOutcome' = [funcOutcome EXCEPT ![i] = fo]
        /\ outcome' = [outcome EXCEPT ![i] = WrappedOutcome(fo)]
        /\ pc' = [pc EXCEPT ![i] =
                    IF WrappedOutcome(fo).kind = "raise" THEN "raised" ELSE "returned"]
    /\ UNCHANGED <<args, sent, sendState, funcCalls, factoryVars, codecVars>>

FuncRaises(i) ==
    /\ pc[i] = "running"
    /\ LET fo == [kind |-> "raise", value |-> "HandlerError"] IN
        /\ funcOutcome' = [funcOutcome EXCEPT ![i] = fo]
        /\ outcome' = [outcome EXCEPT ![i] = WrappedOutcome(fo)]
        /\ pc' = [pc EXCEPT ![i] =
                    IF WrappedOutcome(fo).kind = "raise" THEN "raised" ELSE "returned"]
    /\ UNCHANGED <<args, sent, sendState, funcCalls, factoryVars, codecVars>>

GateNext ==
    \E i \in Invs :
        \/ Call(i)
        \/ SendReplyReturns(i)
        \/ SendReplyRaises(i)
        \/ FuncSendsReply(i)
        \/ FuncReturns(i)
        \/ FuncRaises(i)


-----------------------------------------------------------------------------
(* generate_model_schema                                                   *)
(* A mapping (a Python dict) is a sequence of <<key, value>> pairs with    *)
(* distinct keys, in insertion order.  Objects are named by their index in *)
(* dicts and classes; 0 names no object.                                   *)

MaxBuilds == 2

Names == {"Ping", "Pong"}

HandlerLocators == {"x.PingHandler"}

MsgTypes == {"proto/1.0/ping", "proto/1.0/pong"}

\* The dict literals a caller may write as schema=...
FieldLiterals ==
    { << >>,
      << <<"a", "Str">>, <<"b", "Int">> >>,
      << <<"b", "Str">> >>,
      << <<"_type", "Str">> >> }

\* AgentMessageSchema._declared_fields: the envelope fields every message
\* schema inherits.
EnvelopeFields == << <<"_type", "Str">>, <<"_id", "Str">> >>

\* The prefix AgentMessage._type puts before Meta.message_type.
DIDCommPrefix == "did:sov:BzCbsNYhMrjHiqZDTUASHg;spec/"

\* The names the body of class Model binds (lines 124-139).
ModelBodyNames ==
    {"__doc__", "__slots__", "__qualname__", "__name__", "__module__",
     "__init__", "_type", "Meta"}

NoClass ==
    [kind |-> "None", qualname |-> "None", slots |-> << >>,
     handler_class |-> "None", message_type |-> "None", schema_class |-> "None",
     model_class |-> 0, declared |-> 0]

\* The objects there are before the first call: the envelope fields of
\* AgentMessageSchema (dict 1), and a schema class of the host that is no
\* message schema, such as a record schema, with its fields (dict 2).
LoadedDicts ==
    << [owner |-> "base", items |-> EnvelopeFields],
       [owner |-> "schema", items |-> << <<"state", "Str">>, <<"a", "Str">> >>] >>

LoadedClasses ==
    << [NoClass EXCEPT !.kind = "Schema", !.qualname = "RecordSchema",
                       !.declared = 2] >>

NoInstance == [cls |-> 0, attrs |-> << >>, type |-> "None"]

\* list(d.keys())
Keys(m) == [k \in 1..Len(m) |-> m[k][1]]

KeySet(m) == {m[k][1] : k \in 1..Len(m)}

Range(q) == {q[k] : k \in 1..Len(q)}

\* d[key] = value
SetItem(m, key, value) ==
    IF key \in KeySet(m)
    THEN [k \in 1..Len(m) |-> IF m[k][1] = key THEN <<key, value>> ELSE m[k]]
    ELSE Append(m, <<key, value>>)

\* d.update(e)
RECURSIVE Update(_, _)
Update(m, e) ==
    IF e = << >> THEN m
    ELSE Update(SetItem(m, e[1][1], e[1][2]), Tail(e))

\* Lines 112-121 with every object taken for a mapping of no fields.
ResolveFieldsLenient(shape, ref, ds, cs) ==
    IF shape = "dict"
    THEN [err |-> "None", slots |-> Keys(ds[ref].items), schema_dict |-> ref]
    ELSE IF shape = "schema"
    THEN [err |-> "None", slots |-> Keys(ds[cs[ref].declared].items),
          schema_dict |-> cs[ref].declared]
    ELSE [err |-> "None", slots |-> << >>, schema_dict |-> 1]

\* Lines 112-121: slots and schema_dict from the schema argument.
ResolveFields(shape, ref, ds, cs) ==
    IF shape = "dict"
    THEN [err |-> "None", slots |-> Keys(ds[ref].items), schema_dict |-> ref]
    ELSE IF shape = "schema"
    THEN [err |-> "None", slots |-> Keys(ds[cs[ref].declared].items),
          schema_dict |-> cs[ref].declared]
    ELSE [err |-> "TypeError", slots |-> << >>, schema_dict |-> 0]

\* Creating class Model fails when a name of __slots__ is bound in its body.
SlotConflict(slots) == Range(slots) \cap ModelBodyNames # {}

\* class Model.Meta (lines 139-144).
ModelMeta(name, handler, msg_type) ==
    [handler_class |-> handler, message_type |-> msg_type,
     schema_class |-> name \o "Schema"]

\* class Model (lines 123-144).
ModelClass(name, handler, msg_type, slots) ==
    LET meta == ModelMeta(name, handler, msg_type) IN
    [kind |-> "Model", qualname |-> name, slots |-> slots,
     handler_class |-> meta.handler_class, message_type |-> meta.message_type,
     schema_class |-> meta.schema_class, model_class |-> 0, declared |-> 0]

\* class Schema(AgentMessageSchema): the class gets a _declared_fields dict
\* of its own, holding a copy of the inherited fields.
DeclaredFieldsId(ds) == Len(ds) + 1

\* class Schema (lines 146-155).
SchemaClass(name, model, declared) ==
    [kind |-> "Schema", qualname |-> name \o "Schema", slots |-> << >>,
     handler_class |-> "None", message_type |-> "None", schema_class |-> "None",
     model_class |-> model, declared |-> declared]

\* AgentMessage._type: the message type with the DIDComm prefix.
AgentMessageType(cls) == DIDCommPrefix \o cls.message_type

\* Model._type (lines 131-137).
ModelType(cls) == cls.message_type

\* generic_init (lines 77-83): every slot is set, from kwargs or to None.
GenericInit(slots, kwargs) ==
    [k \in 1..Len(slots) |->
        <<slots[k], IF slots[k] \in kwargs THEN "given" ELSE "None">>]

\* The schema arguments a caller can pass: a new dict literal, a dict it
\* already holds, a schema class built before, or something else (a list).
SchemaArgs ==
    {[shape |-> "dict", ref |-> 0, lit |-> l] : l \in FieldLiterals}
    \cup {[shape |-> "dict", ref |-> d, lit |-> << >>] :
            d \in {x \in 1..Len(dicts) : dicts[x].owner = "descriptor"}}
    \cup {[shape |-> "schema", ref |-> c, lit |-> << >>] :
            c \in {x \in 1..Len(classes) : classes[x].kind = "Schema"}}
    \cup {[shape |-> "other", ref |-> 0, lit |-> << >>]}

\* The state after generate_model_schema(name, handler, msg_type, schema)
\* has run on the objects ds, cs: the call's record and the objects left.
Generate(name, handler, msg_type, shape, ref, ds, cs) ==
    LET res == ResolveFields(shape, ref, ds, cs)
        call == [name |-> name, handler |-> handler, msg_type |-> msg_type,
                 shape |-> shape, ref |-> ref,
                 fields |-> IF res.err = "None" THEN ds[res.schema_dict].items
                            ELSE << >>,
                 result |-> "ok", model |-> 0, schema |-> 0]
    IN  IF res.err # "None"
        THEN [call |-> [call EXCEPT !.result = res.err], dicts |-> ds, classes |-> cs]
        ELSE IF SlotConflict(res.slots)
        THEN [call |-> [call EXCEPT !.result = "ValueError"],
              dicts |-> ds, classes |-> cs]
        ELSE
        LET m   == Len(cs) + 1
            did == DeclaredFieldsId(ds)
            ds1 == IF did > Len(ds)
                   THEN Append(ds, [owner |-> "schema", items |-> ds[1].items])
                   ELSE ds
            ds2 == [ds1 EXCEPT ![did].items = Update(@, ds1[res.schema_dict].items)]
        IN  [call |-> [call EXCEPT !.model = m, !.schema = m + 1],
             dicts |-> ds2,
             classes |-> cs \o << ModelClass(name, handler, msg_type, res.slots),
                                  SchemaClass(name, m, did) >>]

\* A protocol module calls generate_model_schema.
Build ==
    /\ Len(calls) < MaxBuilds
    /\ \E name \in Names, h \in HandlerLocators, t \in MsgTypes, a \in SchemaArgs :
        LET ds  == IF a.shape = "dict" /\ a.ref = 0
                   THEN Append(dicts, [owner |-> "descriptor", items |-> a.lit])
                   ELSE dicts
            ref == IF a.shape = "dict" /\ a.ref = 0 THEN Len(ds) ELSE a.ref
            g   == Generate(name, h, t, a.shape, ref, ds, classes)
        IN  /\ prev' = [dicts |-> ds, classes |-> classes]
            /\ dicts' = g.dicts
            /\ classes' = g.classes
            /\ calls' = Append(calls, g.call)
    /\ UNCHANGED <<instance, gateVars, codecVars>>

\* A message of a generated model is made with keyword arguments, and its
\* _type is read.
Instantiate ==
    /\ \E c \in {x \in 1..Len(classes) : classes[x].kind = "Model"} :
       \E kwargs \in {{}, Range(classes[c].slots)} :
            instance' = [cls |-> c,
                         attrs |-> GenericInit(classes[c].slots, kwargs),
                         type |-> ModelType(classes[c])]
    /\ UNCHANGED <<dicts, classes, calls, prev, gateVars, codecVars>>

FactoryNext == Build \/ Instantiate

-----------------------------------------------------------------------------
(* timestamp_utc_iso and datetime_from_iso                                 *)
(* A string is a sequence of one-character strings.                        *)

Timespecs ==
    {"auto", "hours", "minutes", "seconds", "milliseconds", "microseconds"}

\* The values datetime.utcnow() is taken to return.
Instants ==
    [year : {2020}, month : {1, 12}, day : {9, 31}, hour : {0, 23},
     minute : {0, 59}, second : {0, 7},
     microsecond : {0, 5, 1500, 123456, 999999}]

NoInstant ==
    [year |-> 0, month |-> 0, day |-> 0, hour |-> 0, minute |-> 0,
     second |-> 0, microsecond |-> 0]

NoDatetime ==
    [err |-> "None", year |-> 0, month |-> 0, day |-> 0, hour |-> 0,
     minute |-> 0, second |-> 0, microsecond |-> 0, tzinfo |-> "None"]

ParseError == [NoDatetime EXCEPT !.err = "ValueError"]

DigitChars == <<"0", "1", "2", "3", "4", "5", "6", "7", "8", "9">>

IsDigit(c) == \E d \in 1..10 : DigitChars[d] = c

DigitValue(c) == (CHOOSE d \in 1..10 : DigitChars[d] = c) - 1

\* "%0<width>d" % n
RECURSIVE Pad(_, _)
Pad(n, width) ==
    IF width = 0 THEN << >>
    ELSE Pad(n \div 10, width - 1) \o << DigitChars[(n % 10) + 1] >>

\* int(digits)
RECURSIVE ToInt(_)
ToInt(q) ==
    IF q = << >> THEN 0
    ELSE 10 * ToInt(SubSeq(q, 1, Len(q) - 1)) + DigitValue(q[Len(q)])

AllDigits(q) == \A k \in 1..Len(q) : IsDigit(q[k])

\* s.replace(old, new, count), count < 0 standing for no limit
RECURSIVE Replace(_, _, _, _)
Replace(s, old, new, count) ==
    IF count = 0 \/ Len(s) < Len(old) THEN s
    ELSE IF SubSeq(s, 1, Len(old)) = old
    THEN new \o Replace(SubSeq(s, Len(old) + 1, Len(s)), old, new,
                        IF count > 0 THEN count - 1 ELSE count)
    ELSE << s[1] >> \o Replace(Tail(s), old, new, count)

\* time.isoformat(timespec) of a time with the rounding of "%.3f" in place
\* of the truncation to milliseconds.
IsoTimeRounded(t, spec) ==
    LET hh == Pad(t.hour, 2)
        mm == Pad(t.minute, 2)
        ss == Pad(t.second, 2)
        ms == (t.microsecond + 500) \div 1000
        s  == IF spec = "auto"
              THEN (IF t.microsecond = 0 THEN "seconds" ELSE "microseconds")
              ELSE spec
    IN  CASE s = "hours"        -> hh
          [] s = "minutes"      -> hh \o <<":">> \o mm
          [] s = "seconds"      -> hh \o <<":">> \o mm \o <<":">> \o ss
          [] s = "milliseconds" -> hh \o <<":">> \o mm \o <<":">> \o ss \o <<".">>
                                      \o Pad(ms, 3)
          [] s = "microseconds" -> hh \o <<":">> \o mm \o <<":">> \o ss \o <<".">>
                                      \o Pad(t.microsecond, 6)

\* The time part of datetime.isoformat(timespec=spec).
IsoTime(t, spec) ==
    LET hh == Pad(t.hour, 2)
        mm == Pad(t.minute, 2)
        ss == Pad(t.second, 2)
        s  == IF spec = "auto"
              THEN (IF t.microsecond = 0 THEN "seconds" ELSE "microseconds")
              ELSE spec
    IN  CASE s = "hours"        -> hh
          [] s = "minutes"      -> hh \o <<":">> \o mm
          [] s = "seconds"      -> hh \o <<":">> \o mm \o <<":">> \o ss
          [] s = "milliseconds" -> hh \o <<":">> \o mm \o <<":">> \o ss \o <<".">>
                                      \o Pad(t.microsecond \div 1000, 3)
          [] s = "microseconds" -> hh \o <<":">> \o mm \o <<":">> \o ss \o <<".">>
                                      \o Pad(t.microsecond, 6)

\* datetime.isoformat(timespec=spec) of an aware datetime in timezone.utc.
IsoFormat(t, spec) ==
    Pad(t.year, 4) \o <<"-">> \o Pad(t.month, 2) \o <<"-">> \o Pad(t.day, 2)
      \o <<"T">> \o IsoTime(t, spec) \o <<"+", "0", "0", ":", "0", "0">>

\* timestamp_utc_iso(timespec), datetime.utcnow() having returned t.
TimestampUtcIso(t, spec) ==
    Replace(IsoFormat(t, spec), <<"+", "0", "0", ":", "0", "0">>, <<"Z">>, -1)

\* The fraction of a second of an ISO time, as microseconds
\* (one to six digits are accepted).
Fraction(q) == ToInt(q \o [k \in 1..(6 - Len(q)) |-> "0"])

\* dateutil's isoparse on the time and zone part of a timestamp: hh, hh:mm,
\* hh:mm:ss or hh:mm:ss.f, then nothing (a naive datetime), Z or +00:00.
IsoParseTime(q, d) ==
    LET zoneAt == IF \E k \in 1..Len(q) : q[k] \in {"Z", "+", "-"}
                  THEN CHOOSE k \in 1..Len(q) :
                         /\ q[k] \in {"Z", "+", "-"}
                         /\ \A j \in 1..(k - 1) : q[j] \notin {"Z", "+", "-"}
                  ELSE Len(q) + 1
        t    == SubSeq(q, 1, zoneAt - 1)
        z    == SubSeq(q, zoneAt, Len(q))
        n    == Len(t)
        tz   == IF z = << >> THEN "None"
                ELSE IF z = <<"Z">> \/ z = <<"+", "0", "0", ":", "0", "0">>
                                    \/ z = <<"-", "0", "0", ":", "0", "0">>
                THEN "UTC" ELSE "other"
        okH  == n >= 2 /\ AllDigits(SubSeq(t, 1, 2))
        okM  == n >= 5 /\ t[3] = ":" /\ AllDigits(SubSeq(t, 4, 5))
        okS  == n >= 8 /\ t[6] = ":" /\ AllDigits(SubSeq(t, 7, 8))
        okF  == n >= 10 /\ n <= 15 /\ t[9] \in {".", ","}
                  /\ AllDigits(SubSeq(t, 10, n))
        ok   == /\ tz # "other"
                /\ \/ n = 2 /\ okH
                   \/ n = 5 /\ okH /\ okM
                   \/ n = 8 /\ okH /\ okM /\ okS
                   \/ n >= 10 /\ okH /\ okM /\ okS /\ okF
    IN  IF ~ ok THEN ParseError
        ELSE [d EXCEPT
                !.hour = ToInt(SubSeq(t, 1, 2)),
                !.minute = IF n >= 5 THEN ToInt(SubSeq(t, 4, 5)) ELSE 0,
                !.second = IF n >= 8 THEN ToInt(SubSeq(t, 7, 8)) ELSE 0,
                !.microsecond = IF n >= 10 THEN Fraction(SubSeq(t, 10, n)) ELSE 0,
                !.tzinfo = tz]

\* dateutil's isoparse on a date written YYYY-MM-DD, alone or followed by
\* one separator character (any one: isoparse is built with sep=None) and
\* a time in the extended format.
IsoParse(q) ==
    LET okDate == /\ Len(q) >= 10
                  /\ AllDigits(SubSeq(q, 1, 4)) /\ q[5] = "-"
                  /\ AllDigits(SubSeq(q, 6, 7)) /\ q[8] = "-"
                  /\ AllDigits(SubSeq(q, 9, 10))
        d == [NoDatetime EXCEPT
                !.year = ToInt(SubSeq(q, 1, 4)),
                !.month = ToInt(SubSeq(q, 6, 7)),
                !.day = ToInt(SubSeq(q, 9, 10))]
    IN  IF ~ okDate THEN ParseError
        ELSE IF Len(q) = 10 THEN d
        ELSE IsoParseTime(SubSeq(q, 12, Len(q)), d)

\* datetime_from_iso(timestamp) (lines 36-39).
DatetimeFromIso(timestamp) ==
    IsoParse(Replace(timestamp, <<" ">>, <<"T">>, 1))

\* timestamp_utc_iso(p) is called at the instant t.
Encode ==
    /\ cpc = "start"
    /\ \E t \in Instants, p \in Timespecs :
        /\ now' = t
        /\ timespec' = p
        /\ encoded' = TimestampUtcIso(t, p)
    /\ cpc' = "encoded"
    /\ UNCHANGED <<decoded, gateVars, factoryVars>>

\* The encoded timestamp is read back.
Decode ==
    /\ cpc = "encoded"
    /\ decoded' = DatetimeFromIso(encoded)
    /\ cpc' = "decoded"
    /\ UNCHANGED <<now, timespec, encoded, gateVars, factoryVars>>

\* The encoded timestamp is read back from a text that separates date and
\* time with a space, as a peer may write it.
DecodeSpaced ==
    /\ cpc = "encoded"
    /\ decoded' = DatetimeFromIso(Replace(encoded, <<"T">>, <<" ">>, 1))
    /\ cpc' = "decoded_spaced"
    /\ UNCHANGED <<now, timespec, encoded, gateVars, factoryVars>>

CodecNext == Encode \/ Decode \/ DecodeSpaced

-----------------------------------------------------------------------------
(* Specifications                                                          *)

\* No handler has been called, nothing has been generated, no timestamp has
\* been made.
Init ==
    /\ pc = [i \in Invs |-> "idle"]
    /\ args = [i \in Invs |-> NoArgs]
    /\ sent = [i \in Invs |-> <<>>]
    /\ sendState = [i \in Invs |-> "none"]
    /\ funcCalls = [i \in Invs |-> <<>>]
    /\ funcOutcome = [i \in Invs |-> NoOutcome]
    /\ outcome = [i \in Invs |-> NoOutcome]
    /\ dicts = LoadedDicts
    /\ classes = LoadedClasses
    /\ calls = << >>
    /\ prev = [dicts |-> LoadedDicts, classes |-> LoadedClasses]
    /\ instance = NoInstance
    /\ cpc = "start"
    /\ now = NoInstant
    /\ timespec = "None"
    /\ encoded = << >>
    /\ decoded = NoDatetime

\* The host dispatching messages to gated handlers.
SpecGate == Init /\ [][GateNext]_vars

\* Protocol modules building their message types at load time.
SpecFactory == Init /\ [][FactoryNext]_vars

\* Timestamps being written and read back.
SpecCodec == Init /\ [][CodecNext]_vars

-----------------------------------------------------------------------------
(* Properties of the role gate                                             *)

GateSent(i) == Cardinality({k \in 1..Len(sent[i]) : sent[i][k].by = "gate"})

GateReports(i) == SelectSeq(sent[i], LAMBDA e : e.by = "gate")

Invoked(i) == pc[i] # "idle"

Done(i) == pc[i] \in {"returned", "raised"}

Rejected(i) == Invoked(i) /\ ~ ( /\ args[i].context.connection_record.exists
                                /\ args[i].context.connection_record.their_role
                                     = args[i].role )

\* The thread a reply to the inbound message of invocation i belongs to.
InboundThread(i) ==
    LET m == args[i].context.message
    IN  IF m.thread = "None" THEN m.message_id ELSE m.thread

C2_MismatchRejected ==
    \A i \in Invs :
        ( /\ Invoked(i)
          /\ args[i].context.connection_record.exists
          /\ args[i].context.connection_record.their_role # args[i].role )
        => /\ funcCalls[i] = << >>
           /\ Len(sent[i]) = 1
           /\ sent[i][1].by = "gate"
           /\ sent[i][1].msg.type = "problem-report"
           /\ sent[i][1].msg.who_retries = "none"
           /\ sent[i][1].msg.thid = InboundThread(i)

C2_Witness ==
    \E i, j \in Invs :
        /\ Done(i) /\ Done(j) /\ i # j
        /\ args[i].role = "admin" /\ args[j].role = "admin"
        /\ args[i].context.connection_record.their_role = "member"
        /\ args[j].context.connection_record.their_role = "Admin"
        /\ args[i].context.message # args[j].context.message
        /\ GateSent(i) = 1 /\ GateSent(j) = 1

\* C3 (as claimed): with no connection record the invocation ends like a
\* role mismatch is claimed to end: no exception reaches the caller, the
\* wrapped function is not called, one problem report with who_retries
\* "none" is sent.
C3_AbsentLikeMismatch ==
    \A i \in Invs :
        ( Done(i) /\ ~ args[i].context.connection_record.exists )
        => /\ outcome[i].kind = "return"
           /\ funcCalls[i] = << >>
           /\ Len(GateReports(i)) = 1
           /\ GateReports(i)[1].msg.who_retries = "none"

\* What does hold with no connection record: the wrapped function is not
\* called and the responder gets one message, the gate's problem report,
\* as for a role mismatch; and the invocation ends as the send ended.
C3_AbsentRejected ==
    \A i \in Invs :
        ( Invoked(i) /\ ~ args[i].context.connection_record.exists )
        => /\ funcCalls[i] = << >>
           /\ Len(sent[i]) = 1
           /\ sent[i][1].by = "gate"
           /\ sent[i][1].msg.who_retries = "none"
           /\ sent[i][1].msg.thid = InboundThread(i)
           /\ (Done(i) => ( outcome[i].kind = "return" <=> sendState[i] = "done" ))

\* C4: a context whose recorded role equals the required role reaches the
\* wrapped function exactly once, with the handler, context and responder
\* the gate was given; the gate sends nothing itself, and it ends the way
\* the function ended, with the function's result.
C4_MatchForwarded ==
    \A i \in Invs :
        ( /\ Invoked(i)
          /\ args[i].context.connection_record.exists
          /\ args[i].context.connection_record.their_role = args[i].role )
        => /\ funcCalls[i] =
                << <<args[i].handler, args[i].context, args[i].responder>> >>
           /\ GateSent(i) = 0
           /\ sendState[i] = "none"
           /\ (Done(i) => outcome[i] = funcOutcome[i] /\ funcOutcome[i].kind # "none")
           /\ (~ Done(i) => outcome[i].kind = "none")

C4_Witness ==
    \E i \in Invs :
        /\ pc[i] = "returned"
        /\ Len(funcCalls[i]) = 1
        /\ outcome[i].value = "result"
        /\ \E k \in 1..Len(sent[i]) : sent[i][k].by = "func"

\* C5: once the gate has handed over a rejection reply, the wrapped function
\* is not running and has not been called, and the gate does not end before
\* the responder has finished with the reply; whatever the other
\* invocations are doing.
C5_RejectIsSynchronous ==
    \A i \in Invs :
        GateSent(i) > 0 =>
            /\ pc[i] # "running"
            /\ funcCalls[i] = << >>
            /\ (Done(i) => sendState[i] \in {"done", "failed"})

C5_Witness ==
    \E i, j \in Invs :
        /\ i # j
        /\ pc[i] = "returned" /\ GateSent(i) = 1 /\ sendState[i] = "done"
        /\ pc[j] = "running"

\* C6 (as claimed): a rejected invocation never ends with an exception at
\* the caller, however the responder's send ended.
C6_RejectionNeverRaises ==
    \A i \in Invs :
        ( Done(i) /\ Rejected(i) ) => outcome[i].kind = "return"

-----------------------------------------------------------------------------
(* Properties of the factory                                               *)

Ok(k) == calls[k].result = "ok"

SameDescriptor(j, k) ==
    /\ calls[j].name = calls[k].name
    /\ calls[j].handler = calls[k].handler
    /\ calls[j].msg_type = calls[k].msg_type
    /\ calls[j].shape = calls[k].shape
    /\ calls[j].fields = calls[k].fields

\* The metadata of the model call k returned.
MetaOf(k) ==
    LET m == classes[calls[k].model]
    IN  <<m.handler_class, m.message_type, m.schema_class>>

\* What the pair of call k is and holds, but for the identity of its objects.
ShapeOf(k) ==
    <<classes[calls[k].model].slots, MetaOf(k),
      dicts[classes[calls[k].schema].declared].items>>

\* The latest call left alone every object that was there before it.
LatestCallKeptObjects ==
    /\ \A c \in 1..Len(prev.classes) : classes[c] = prev.classes[c]
    /\ \A d \in 1..Len(prev.dicts) : dicts[d] = prev.dicts[d]

\* The pair of call k: a model whose attributes are the field names, and a
\* schema of its own that refers to the model and declares the envelope
\* fields and the descriptor's fields.
FreshPair(k) ==
    LET c == calls[k]
    IN  /\ c.model \in 1..Len(classes) /\ c.schema \in 1..Len(classes)
        /\ classes[c.model].kind = "Model"
        /\ classes[c.schema].kind = "Schema"
        /\ classes[c.schema].model_class = c.model
        /\ Range(classes[c.model].slots) = KeySet(c.fields)
        /\ KeySet(dicts[classes[c.schema].declared].items)
             = KeySet(EnvelopeFields) \cup KeySet(c.fields)
        /\ \A j \in 1..Len(calls) :
             (j # k /\ Ok(j)) =>
                /\ {calls[j].model, calls[j].schema} \cap {c.model, c.schema} = {}
                /\ classes[calls[j].schema].declared # classes[c.schema].declared
                /\ (SameDescriptor(j, k) => ShapeOf(j) = ShapeOf(k))

\* C7: the model of every successful call carries the call's handler, its
\* msg_type and name + "Schema" as metadata, and an instance of a generated
\* model reports as _type the msg_type its model was generated with,
\* character for character.
C7_TypeIsMessageType ==
    /\ \A k \in 1..Len(calls) :
         Ok(k) => MetaOf(k) = <<calls[k].handler, calls[k].msg_type,
                                calls[k].name \o "Schema">>
    /\ instance.cls # 0 =>
         \E k \in 1..Len(calls) :
            /\ Ok(k) /\ calls[k].model = instance.cls
            /\ instance.type = calls[k].msg_type

C7_Witness ==
    /\ Len(calls) = 2 /\ Ok(1) /\ Ok(2)
    /\ calls[1].msg_type = "proto/1.0/pong"
    /\ calls[2].msg_type = "proto/1.0/ping"
    /\ calls[2].name = "Ping" /\ calls[2].fields = << >>
    /\ instance.cls = calls[2].model
    /\ instance.type = "proto/1.0/ping"

\* C8 (as claimed): every call whose schema argument is a dict or an object
\* with _declared_fields returns a fresh pair: the model's attributes are
\* the field names, the schema declares the envelope fields and the
\* descriptor's, calls with the same descriptor return distinct pairs alike
\* in fields and metadata, and no call changes an earlier pair or a
\* descriptor.
C8_ValidDescriptorBuilds ==
    /\ \A k \in 1..Len(calls) :
         calls[k].shape \in {"dict", "schema"} => Ok(k) /\ FreshPair(k)
    /\ LatestCallKeptObjects

\* The same of the calls that return.
C8_ReturnedPairs ==
    /\ \A k \in 1..Len(calls) : Ok(k) => FreshPair(k)
    /\ LatestCallKeptObjects

C8_ReturnedPairsWitness ==
    /\ Len(calls) = 2 /\ Ok(1) /\ Ok(2)
    /\ SameDescriptor(1, 2)
    /\ calls[1].fields # << >>

\* C9: a call whose schema argument is neither a dict nor an object with
\* _declared_fields ends in the TypeError of line 119, returns no pair, and
\* leaves every class and every dict as it was before the call.
C9_OtherShapeRejected ==
    /\ \A k \in 1..Len(calls) :
         calls[k].shape = "other" =>
            /\ calls[k].result = "TypeError"
            /\ calls[k].model = 0 /\ calls[k].schema = 0
    /\ (calls # << >> /\ calls[Len(calls)].shape = "other") =>
            /\ classes = prev.classes
            /\ dicts = prev.dicts

C9_Witness ==
    /\ Len(calls) = 2
    /\ Ok(1) /\ calls[1].fields # << >>
    /\ calls[2].shape = "other" /\ calls[2].result = "TypeError"
    /\ Len(classes) = Len(LoadedClasses) + 2

-----------------------------------------------------------------------------
(* Properties of the timestamp codec                                       *)

\* The instant t cut down to the precision p.
Truncated(t, p) ==
    [t EXCEPT
       !.minute = IF p = "hours" THEN 0 ELSE @,
       !.second = IF p \in {"hours", "minutes"} THEN 0 ELSE @,
       !.microsecond = IF p \in {"hours", "minutes", "seconds"} THEN 0
                       ELSE IF p = "milliseconds" THEN @ - (@ % 1000)
                       ELSE @]

Contains(s, sub) ==
    \E k \in 1..(Len(s) - Len(sub) + 1) : SubSeq(s, k, k + Len(sub) - 1) = sub

\* C10: for each of the six timespecs, the encoded timestamp ends with Z
\* and holds no "+00:00", and reading it back gives an aware datetime in
\* UTC equal to the instant of encoding truncated to the timespec.
C10_RoundTrip ==
    /\ cpc # "start" =>
         /\ encoded # << >>
         /\ encoded[Len(encoded)] = "Z"
         /\ ~ Contains(encoded, <<"+", "0", "0", ":", "0", "0">>)
    /\ cpc = "decoded" =>
         /\ decoded.err = "None"
         /\ decoded.tzinfo = "UTC"
         /\ LET t == Truncated(now, timespec)
            IN  /\ decoded.year = t.year /\ decoded.month = t.month
                /\ decoded.day = t.day /\ decoded.hour = t.hour
                /\ decoded.minute = t.minute /\ decoded.second = t.second
                /\ decoded.microsecond = t.microsecond

C10_Witness ==
    /\ cpc = "decoded"
    /\ timespec = "milliseconds"
    /\ now.microsecond = 999999
    /\ decoded.microsecond = 999000
    /\ now.hour = 23

=============================================================================
